---- MODULE Spec2Model ----
(***************************************************************************)
(* Paper-trading wallet (backend/wallet_env.py, class PaperWallet).        *)
(*                                                                         *)
(* Python floats are modelled as exact rationals <<numerator, denominator>>*)
(* in lowest terms with a positive denominator, so that "within            *)
(* floating-point tolerance" becomes exact equality and the dust threshold *)
(* comparison (shares < 0.001) is decided exactly.                         *)
(***************************************************************************)
EXTENDS Integers, Sequences, FiniteSets, TLC

\* ------------------------------------------------------------------------
\* Exact rational arithmetic standing for Python float arithmetic
\* ------------------------------------------------------------------------
RECURSIVE GCD(_, _)
GCD(a, b) == IF b = 0 THEN a ELSE GCD(b, a % b)

Abs(n) == IF n < 0 THEN 0 - n ELSE n

LCM(a, b) == (a \div GCD(a, b)) * b

Norm(n, d) ==
    LET g == GCD(Abs(n), d)
    IN  <<(IF n < 0 THEN 0 - (Abs(n) \div g) ELSE n \div g), d \div g>>

Zero == <<0, 1>>

\* x + y
RAdd(x, y) ==
    LET l == LCM(x[2], y[2])
    IN  Norm(x[1] * (l \div x[2]) + y[1] * (l \div y[2]), l)

\* x - y
RSub(x, y) == RAdd(x, <<0 - y[1], y[2]>>)

\* x * y (cross-reduced before multiplying)
RMul(x, y) ==
    LET g1 == GCD(Abs(x[1]), y[2])
        g2 == GCD(Abs(y[1]), x[2])
        sx == IF x[1] < 0 THEN 0 - (Abs(x[1]) \div g1) ELSE x[1] \div g1
        sy == IF y[1] < 0 THEN 0 - (Abs(y[1]) \div g2) ELSE y[1] \div g2
    IN  Norm(sx * sy, (x[2] \div g2) * (y[2] \div g1))

\* x / y for y > 0
RDiv(x, y) == RMul(x, <<y[2], y[1]>>)

\* x < y
RLt(x, y) ==
    LET l == LCM(x[2], y[2])
    IN  x[1] * (l \div x[2]) < y[1] * (l \div y[2])

\* x > y
RGt(x, y) == RLt(y, x)

\* x <= y
RLe(x, y) == ~RLt(y, x)

\* ------------------------------------------------------------------------
\* Inputs of the calls
\* ------------------------------------------------------------------------
\* Bound on the number of executed orders (length of the transaction log).
MaxTransactions == 3

Markets == {"m1", "m2"}

Sides == {"YES", "NO"}

Question(market_id) == IF market_id = "m1" THEN "q1" ELSE "q2"

\* starting_balance arguments of the constructor
StartingBalances == {<<1000, 1>>}

\* price arguments: 0.40 and 0.50
Prices == {<<2, 5>>, <<1, 2>>}

\* amount_usd arguments: 100 and 1100
Amounts == {<<100, 1>>, <<1100, 1>>}

\* Python None for the optional shares_to_sell argument
None == <<0, 0>>

\* shares_to_sell arguments: omitted, 125 and 249.9995
Quantities == {None, <<125, 1>>, <<499999, 2000>>}

\* ------------------------------------------------------------------------
\* State
\* ------------------------------------------------------------------------
VARIABLES
    cash_balance,         \* self.cash_balance
    initial_balance,      \* self.initial_balance
    positions,            \* self.positions: market_id -> position record
    transaction_history,  \* self.transaction_history
    call,                 \* the latest call and its arguments
    ret,                  \* the value returned by the latest call: success
                          \* for buy, realized_pnl for sell (for sell,
                          \* success tells whether the order was executed)
    pre,                  \* the wallet as it was when the latest call began
    written_off,          \* cost basis of the remainders deleted by sell
    clock,                \* the latest instant read from datetime.utcnow()
    snap,                 \* what get_snapshot returned, when it is the
                          \* latest call
    prev_snap,            \* what the call before returned, when it and the
                          \* latest call are both get_snapshot
    formatted,            \* what get_positions_formatted returned, when it
                          \* is the latest call
    markets,              \* the price of each entry of MARKETS_DB
    db,                   \* the tables of the database
    events,               \* the list returned by the latest test_simulation
    responses,            \* what each test_simulation gave its caller:
                          \* "returned", or the call whose exception it
                          \* let through
    threads,              \* the request each worker thread is handling and
                          \* how far it is
    wallet_states,        \* the cash and positions the wallet has held
                          \* since the service started
    strategy,             \* the latest call of a strategy: what it was
                          \* given, what it drew and the decision returned
    timestamps            \* the texts get_iso_time has returned

\* the variables written by get_snapshot and get_positions_formatted
read_vars == <<clock, snap, prev_snap, formatted>>

\* the variables written by test_simulation besides the wallet
tick_vars == <<markets, db, events, responses>>

\* the variables of the requests handled by the threads of the server
thread_vars == <<threads, wallet_states>>

\* what the strategies and get_iso_time have returned
returned_vars == <<strategy, timestamps>>

vars == <<cash_balance, initial_balance, positions, transaction_history,
          call, ret, pre, written_off, clock, snap, prev_snap, formatted,
          markets, db, events, responses, threads, wallet_states,
          strategy, timestamps>>

wallet == [cash_balance |-> cash_balance,
           positions |-> positions,
           transaction_history |-> transaction_history]

\* the 0.001 share threshold under which sell deletes the position
DUST == <<1, 1000>>

NoCall == [op |-> "init", market_id |-> "", side |-> "", price |-> Zero,
           amount_usd |-> Zero, shares_to_sell |-> None]

NoRet == [success |-> FALSE, realized_pnl |-> Zero]

\* no snapshot / no formatted positions returned by the latest call
NoSnapshot == [prices |-> <<>>, result |-> <<>>, returned |-> FALSE]

NoFormatted == [prices |-> <<>>, result |-> <<>>, returned |-> FALSE]

\* MARKETS_DB, restricted to two of its six instruments
MARKETS_DB ==
    [m \in {"mkt_btc_150k", "mkt_mars"} |->
       IF m = "mkt_btc_150k"
       THEN [question |-> "Will Bitcoin reach $150k by end of 2026?",
             category |-> "crypto", price |-> <<21, 50>>]
       ELSE [question |-> "Will humans land on Mars before 2030?",
             category |-> "science", price |-> <<2, 25>>]]

\* the tables of a database without any row
EmptyDb == [trades |-> <<>>, portfolio_snapshots |-> <<>>,
            activity_logs |-> <<>>, bot_decisions |-> <<>>,
            market_snapshots |-> <<>>]

\* the module-level state of simulation.py and a fresh database
TickInit ==
    /\ markets = [m \in DOMAIN MARKETS_DB |-> MARKETS_DB[m].price]
    /\ db = EmptyDb
    /\ events = <<>>
    /\ responses = <<>>

\* the threads that handle /api/tick and those that handle /api/stats
TickThreads == {"t1", "t2"}

StatsThreads == {"r1"}

\* a thread that is handling no request
IdleThread ==
    [pc |-> "idle", target |-> "", change |-> Zero,
     decision |-> [action |-> "", side |-> "", confidence |-> 0,
                   reasoning |-> ""],
     success |-> FALSE, trade |-> <<>>, prices |-> <<>>,
     positions |-> <<>>, cash_balance |-> Zero, result |-> <<>>]

\* no strategy has been called
NoStrategy ==
    [op |-> "none", category |-> "", risk_tolerance |-> Zero,
     preferred_categories |-> {}, draw |-> Zero,
     decision |-> [action |-> "", side |-> "", confidence |-> 0,
                   reasoning |-> ""]]

\* no request has been received
ThreadsInit ==
    /\ threads = [t \in TickThreads \cup StatsThreads |-> IdleThread]
    /\ wallet_states = {}
    /\ strategy = NoStrategy
    /\ timestamps = <<>>

Init ==
    /\ cash_balance \in StartingBalances
    /\ initial_balance = cash_balance
    /\ positions = <<>>
    /\ transaction_history = <<>>
    /\ call = NoCall
    /\ ret = NoRet
    /\ pre = [cash_balance |-> cash_balance, positions |-> <<>>,
              transaction_history |-> <<>>]
    /\ written_off = Zero
    /\ clock = 0
    /\ snap = NoSnapshot
    /\ prev_snap = NoSnapshot
    /\ formatted = NoFormatted
    /\ TickInit
    /\ ThreadsInit

\* log_transaction that drops the pnl argument and keeps the default 0
log_transaction_default_pnl(action, m_id, question, side, price, qty, pnl) ==
    [marketId |-> m_id, question |-> question, action |-> action,
     side |-> side, price |-> price, quantity |-> qty, pnl |-> Zero]

\* the record appended by _log_transaction (uuid and timestamp left out)
log_transaction(action, m_id, question, side, price, qty, pnl) ==
    [marketId |-> m_id, question |-> question, action |-> action,
     side |-> side, price |-> price, quantity |-> qty, pnl |-> pnl]

\* append_transaction that inserts the record at the head of the log
append_transaction_at_head(history, tx) == <<tx>> \o history

\* self.transaction_history.append(...) of _log_transaction
append_transaction(history, tx) == Append(history, tx)

\* the empty position created by buy for an instrument without position
new_position(market_id, question, side) ==
    [marketId |-> market_id, marketQuestion |-> question, side |-> side,
     shares |-> Zero, avgEntryPrice |-> Zero, totalCost |-> Zero]

\* merge_position with the average taken as the mean of the old average
\* and the new price, whatever the quantities
merge_position_unweighted(pos, price, amount_usd) ==
    LET shares_bought == RDiv(amount_usd, price)
        new_total_cost == RAdd(pos.totalCost, amount_usd)
        new_total_shares == RAdd(pos.shares, shares_bought)
    IN  [pos EXCEPT !.shares = new_total_shares,
                    !.totalCost = new_total_cost,
                    !.avgEntryPrice =
                        IF RGt(pos.shares, Zero)
                        THEN RDiv(RAdd(pos.avgEntryPrice, price), <<2, 1>>)
                        ELSE price]

\* the position after a buy of amount_usd at price merged into pos
merge_position(pos, price, amount_usd) ==
    LET shares_bought == RDiv(amount_usd, price)
        new_total_cost == RAdd(pos.totalCost, amount_usd)
        new_total_shares == RAdd(pos.shares, shares_bought)
    IN  [pos EXCEPT !.shares = new_total_shares,
                    !.totalCost = new_total_cost,
                    !.avgEntryPrice =
                        IF RGt(new_total_shares, Zero)
                        THEN RDiv(new_total_cost, new_total_shares)
                        ELSE Zero]

\* insufficient_funds without the comparison
insufficient_funds_never(amount_usd, cash) == FALSE

\* buy is rejected when the amount exceeds the cash
insufficient_funds(amount_usd, cash) == RGt(amount_usd, cash)

\* buy_rejected with the cash debited before the check
buy_rejected_debited(amount_usd) ==
    /\ ret' = [success |-> FALSE, realized_pnl |-> Zero]
    /\ cash_balance' = RSub(cash_balance, amount_usd)
    /\ UNCHANGED <<positions, transaction_history>>

\* the rejected branch of buy: return False, nothing touched
buy_rejected(amount_usd) ==
    /\ ret' = [success |-> FALSE, realized_pnl |-> Zero]
    /\ UNCHANGED <<cash_balance, positions, transaction_history>>

buy(market_id, question, side, price, amount_usd) ==
    /\ Len(transaction_history) < MaxTransactions
    /\ call' = [op |-> "buy", market_id |-> market_id, side |-> side,
                price |-> price, amount_usd |-> amount_usd,
                shares_to_sell |-> None]
    /\ pre' = wallet
    /\ UNCHANGED <<initial_balance, written_off>>
    /\ IF insufficient_funds(amount_usd, cash_balance)
       THEN buy_rejected(amount_usd)
       ELSE LET pos == IF market_id \in DOMAIN positions
                       THEN positions[market_id]
                       ELSE new_position(market_id, question, side)
            IN  /\ cash_balance' = RSub(cash_balance, amount_usd)
                /\ positions' =
                     [m \in DOMAIN positions \cup {market_id} |->
                        IF m = market_id
                        THEN merge_position(pos, price, amount_usd)
                        ELSE positions[m]]
                /\ transaction_history' =
                     append_transaction(transaction_history,
                            log_transaction("BUY", market_id, question, side,
                                            price, RDiv(amount_usd, price),
                                            Zero))
                /\ ret' = [success |-> TRUE, realized_pnl |-> Zero]

\* sold_shares without the clamp to the shares held
sold_shares_unclamped(shares_to_sell, current_shares) ==
    IF shares_to_sell = None THEN current_shares ELSE shares_to_sell

\* the quantity sell really sells
sold_shares(shares_to_sell, current_shares) ==
    IF shares_to_sell = None \/ RGt(shares_to_sell, current_shares)
    THEN current_shares
    ELSE shares_to_sell

\* cost_basis taken as the whole cost of the position
cost_basis_whole(shares_to_sell, pos) == pos.totalCost

\* cost_basis = shares_to_sell * pos["avgEntryPrice"]
cost_basis(shares_to_sell, pos) == RMul(shares_to_sell, pos.avgEntryPrice)

\* reduce_position that forgets to reduce totalCost
reduce_position_keep_cost(pos, shares_to_sell, basis) ==
    [pos EXCEPT !.shares = RSub(pos.shares, shares_to_sell)]

\* the position after pos["shares"] -= ..., pos["totalCost"] -= ...
reduce_position(pos, shares_to_sell, basis) ==
    [pos EXCEPT !.shares = RSub(pos.shares, shares_to_sell),
                !.totalCost = RSub(pos.totalCost, basis)]

\* is_dust that only recognises an empty position
is_dust_zero_only(shares) == RLe(shares, Zero)

\* sell deletes the position when the remaining shares are dust
is_dust(shares) == RLt(shares, DUST)

\* sell_no_position that still logs a SELL of nothing
sell_no_position_logged(market_id, price) ==
    /\ ret' = [success |-> FALSE, realized_pnl |-> Zero]
    /\ transaction_history' =
         Append(transaction_history,
                log_transaction("SELL", market_id, "", "", price, Zero, Zero))
    /\ UNCHANGED <<cash_balance, positions, written_off>>

\* the branch of sell for an instrument without position: return 0.0
sell_no_position(market_id, price) ==
    /\ ret' = [success |-> FALSE, realized_pnl |-> Zero]
    /\ UNCHANGED <<cash_balance, positions, transaction_history,
                   written_off>>

\* sell that sets the average entry price to the price of the sale
sell_repricing(market_id, price, shares_to_sell) ==
    /\ Len(transaction_history) < MaxTransactions
    /\ call' = [op |-> "sell", market_id |-> market_id, side |-> "",
                price |-> price, amount_usd |-> Zero,
                shares_to_sell |-> shares_to_sell]
    /\ pre' = wallet
    /\ UNCHANGED initial_balance
    /\ IF market_id \notin DOMAIN positions
       THEN sell_no_position(market_id, price)
       ELSE LET pos == positions[market_id]
                qty == sold_shares(shares_to_sell, pos.shares)
                revenue == RMul(qty, price)
                basis == cost_basis(qty, pos)
                realized_pnl == RSub(revenue, basis)
                left == [reduce_position(pos, qty, basis)
                            EXCEPT !.avgEntryPrice = price]
            IN  /\ cash_balance' = RAdd(cash_balance, revenue)
                /\ IF is_dust(left.shares)
                   THEN /\ positions' =
                             [m \in DOMAIN positions \ {market_id} |->
                                positions[m]]
                        /\ written_off' =
                             RAdd(written_off,
                                  RMul(left.shares, left.avgEntryPrice))
                   ELSE /\ positions' =
                             [positions EXCEPT ![market_id] = left]
                        /\ UNCHANGED written_off
                /\ transaction_history' =
                     append_transaction(transaction_history,
                            log_transaction("SELL", market_id,
                                            pos.marketQuestion, pos.side,
                                            price, qty, realized_pnl))
                /\ ret' = [success |-> TRUE, realized_pnl |-> realized_pnl]

\* PaperWallet.sell
sell(market_id, price, shares_to_sell) ==
    /\ Len(transaction_history) < MaxTransactions
    /\ call' = [op |-> "sell", market_id |-> market_id, side |-> "",
                price |-> price, amount_usd |-> Zero,
                shares_to_sell |-> shares_to_sell]
    /\ pre' = wallet
    /\ UNCHANGED initial_balance
    /\ IF market_id \notin DOMAIN positions
       THEN sell_no_position(market_id, price)
       ELSE LET pos == positions[market_id]
                qty == sold_shares(shares_to_sell, pos.shares)
                revenue == RMul(qty, price)
                basis == cost_basis(qty, pos)
                realized_pnl == RSub(revenue, basis)
                left == reduce_position(pos, qty, basis)
            IN  /\ cash_balance' = RAdd(cash_balance, revenue)
                /\ IF is_dust(left.shares)
                   THEN /\ positions' =
                             [m \in DOMAIN positions \ {market_id} |->
                                positions[m]]
                        /\ written_off' =
                             RAdd(written_off,
                                  RMul(left.shares, left.avgEntryPrice))
                   ELSE /\ positions' =
                             [positions EXCEPT ![market_id] = left]
                        /\ UNCHANGED written_off
                /\ transaction_history' =
                     append_transaction(transaction_history,
                            log_transaction("SELL", market_id,
                                            pos.marketQuestion, pos.side,
                                            price, qty, realized_pnl))
                /\ ret' = [success |-> TRUE, realized_pnl |-> realized_pnl]

Next ==
    \/ \E m \in Markets, s \in Sides, p \in Prices, a \in Amounts :
          buy(m, Question(m), s, p, a)
          /\ UNCHANGED read_vars /\ UNCHANGED tick_vars
          /\ UNCHANGED thread_vars /\ UNCHANGED returned_vars
    \/ \E m \in Markets, p \in Prices, q \in Quantities :
          sell(m, p, q)
          /\ UNCHANGED read_vars /\ UNCHANGED tick_vars
          /\ UNCHANGED thread_vars /\ UNCHANGED returned_vars

Spec == Init /\ [][Next]_vars

\* ------------------------------------------------------------------------
\* The wallet called with small amounts
\* ------------------------------------------------------------------------
\* amount_usd of the buys: nothing, a hundredth of a cent, 100 USD
SmallAmounts == {Zero, <<1, 10000>>, <<100, 1>>}

\* price of the orders
SmallPrices == {<<1, 2>>}

SmallNext ==
    \/ \E m \in Markets, s \in Sides, p \in SmallPrices,
          a \in SmallAmounts :
          buy(m, Question(m), s, p, a)
          /\ UNCHANGED read_vars /\ UNCHANGED tick_vars
          /\ UNCHANGED thread_vars /\ UNCHANGED returned_vars
    \/ \E m \in Markets, p \in SmallPrices :
          sell(m, p, None)
          /\ UNCHANGED read_vars /\ UNCHANGED tick_vars
          /\ UNCHANGED thread_vars /\ UNCHANGED returned_vars

SpecSmall == Init /\ [][SmallNext]_vars

\* ------------------------------------------------------------------------
\* get_snapshot and get_positions_formatted
\* ------------------------------------------------------------------------
\* Bound on the executed orders before the valuations.
MaxSnapshotTransactions == 2

\* Bound on the instants the clock can show.
MaxClock == 1

\* current_market_prices arguments: no live price at all, and a live price
\* of 0.40 for m1 only
SnapshotPrices == {<<>>, [m \in {"m1"} |-> <<2, 5>>]}

\* shares_to_sell arguments: omitted and 125.012
SnapshotQuantities == {None, <<31253, 250>>}

RECURSIVE Pow10(_)
Pow10(k) == IF k = 0 THEN 1 ELSE 10 * Pow10(k - 1)

\* round(x, k): the nearest multiple of 10^-k, a tie going to the even one
Round(x, k) ==
    LET scaled == x[1] * Pow10(k)
        q == scaled \div x[2]
        r == scaled % x[2]
        up == \/ 2 * r > x[2]
              \/ (2 * r = x[2] /\ q % 2 = 1)
    IN  Norm(IF up THEN q + 1 ELSE q, Pow10(k))

\* current_market_prices.get(m_id, pos["avgEntryPrice"]) with 0 as default
current_price_default_zero(prices, m_id, pos) ==
    IF m_id \in DOMAIN prices THEN prices[m_id] ELSE Zero

\* current_market_prices.get(m_id, pos["avgEntryPrice"])
current_price(prices, m_id, pos) ==
    IF m_id \in DOMAIN prices THEN prices[m_id] ELSE pos.avgEntryPrice

RECURSIVE invested_value(_, _, _)
\* the loop of get_snapshot over the positions of the instruments ms
invested_value(pos_map, prices, ms) ==
    IF ms = {} THEN Zero
    ELSE LET m_id == CHOOSE x \in ms : TRUE
         IN  RAdd(RMul(pos_map[m_id].shares,
                       current_price(prices, m_id, pos_map[m_id])),
                  invested_value(pos_map, prices, ms \ {m_id}))

\* the dict get_snapshot returns at the instant now from what it reads:
\* the positions, self.cash_balance for the total value, and
\* self.cash_balance again for the cashBalance field
snapshot_reads(cash_total, cash_field, pos_map, initial, prices, now) ==
    LET invested == invested_value(pos_map, prices, DOMAIN pos_map)
        total_value == RAdd(cash_total, invested)
        total_pnl == RSub(total_value, initial)
    IN  [timestamp |-> now,
         totalValue |-> Round(total_value, 2),
         cashBalance |-> Round(cash_field, 2),
         investedValue |-> Round(invested, 2),
         dailyPnL |-> Round(total_pnl, 2),
         totalPnL |-> Round(total_pnl, 2)]

\* the dict get_snapshot returns at the instant now for a wallet of the
\* given cash, positions and initial balance
snapshot_from(cash, pos_map, initial, prices, now) ==
    snapshot_reads(cash, cash, pos_map, initial, prices, now)

\* the dict returned by get_snapshot at the instant now
snapshot_of(prices, now) ==
    snapshot_from(cash_balance, positions, initial_balance, prices, now)

\* get_snapshot that marks the positions to the market as it values them
get_snapshot_marking(prices, now) ==
    /\ call' = [NoCall EXCEPT !.op = "get_snapshot"]
    /\ pre' = wallet
    /\ ret' = NoRet
    /\ clock' = now
    /\ snap' = [prices |-> prices, result |-> snapshot_of(prices, now),
                returned |-> TRUE]
    /\ prev_snap' = snap
    /\ formatted' = NoFormatted
    /\ positions' =
         [m \in DOMAIN positions |->
            [positions[m] EXCEPT
               !.avgEntryPrice = current_price(prices, m, positions[m])]]
    /\ UNCHANGED <<cash_balance, initial_balance, transaction_history,
                   written_off>>
    /\ UNCHANGED tick_vars /\ UNCHANGED thread_vars /\ UNCHANGED returned_vars

get_snapshot(prices, now) ==
    /\ call' = [NoCall EXCEPT !.op = "get_snapshot"]
    /\ pre' = wallet
    /\ ret' = NoRet
    /\ clock' = now
    /\ snap' = [prices |-> prices, result |-> snapshot_of(prices, now),
                returned |-> TRUE]
    /\ prev_snap' = snap
    /\ formatted' = NoFormatted
    /\ UNCHANGED <<cash_balance, initial_balance, positions,
                   transaction_history, written_off>>
    /\ UNCHANGED tick_vars /\ UNCHANGED thread_vars /\ UNCHANGED returned_vars

\* one entry of the list returned by get_positions_formatted
format_position(prices, m_id, pos) ==
    LET price == current_price(prices, m_id, pos)
        unrealized_pnl == RMul(RSub(price, pos.avgEntryPrice), pos.shares)
        percent_change ==
            IF RGt(pos.avgEntryPrice, Zero)
            THEN RMul(RDiv(RSub(price, pos.avgEntryPrice),
                           pos.avgEntryPrice), <<100, 1>>)
            ELSE Zero
    IN  [marketId |-> m_id,
         marketQuestion |-> pos.marketQuestion,
         side |-> pos.side,
         shares |-> Round(pos.shares, 2),
         avgEntryPrice |-> Round(pos.avgEntryPrice, 3),
         currentPrice |-> Round(price, 3),
         unrealizedPnL |-> Round(unrealized_pnl, 2),
         percentChange |-> Round(percent_change, 2)]

\* the entries of the returned list, by instrument
get_positions_formatted(prices) ==
    /\ call' = [NoCall EXCEPT !.op = "get_positions_formatted"]
    /\ pre' = wallet
    /\ ret' = NoRet
    /\ formatted' =
         [prices |-> prices,
          result |-> [m \in DOMAIN positions |->
                        format_position(prices, m, positions[m])],
          returned |-> TRUE]
    /\ snap' = NoSnapshot
    /\ prev_snap' = NoSnapshot
    /\ UNCHANGED <<cash_balance, initial_balance, positions,
                   transaction_history, written_off, clock>>
    /\ UNCHANGED tick_vars /\ UNCHANGED thread_vars /\ UNCHANGED returned_vars

\* a buy or a sell is not a valuation
no_valuation ==
    /\ snap' = NoSnapshot
    /\ prev_snap' = NoSnapshot
    /\ formatted' = NoFormatted
    /\ UNCHANGED clock
    /\ UNCHANGED tick_vars /\ UNCHANGED thread_vars /\ UNCHANGED returned_vars

SnapshotNext ==
    \/ /\ Len(transaction_history) < MaxSnapshotTransactions
       /\ \E m \in Markets, s \in Sides, p \in Prices, a \in Amounts :
             buy(m, Question(m), s, p, a)
       /\ no_valuation
    \/ /\ Len(transaction_history) < MaxSnapshotTransactions
       /\ \E m \in Markets, p \in Prices, q \in SnapshotQuantities :
             sell(m, p, q)
       /\ no_valuation
    \/ \E prices \in SnapshotPrices, now \in clock..MaxClock :
          get_snapshot(prices, now)
    \/ \E prices \in SnapshotPrices :
          get_positions_formatted(prices)

SpecSnapshot == Init /\ [][SnapshotNext]_vars

\* ------------------------------------------------------------------------
\* test_simulation: one tick of the simulation (backend/simulation.py)
\* ------------------------------------------------------------------------
\* Bound on the number of ticks.
MaxTicks == 3

\* the configured initial balance of the wallet handed to the ticks
TickStartingBalances == {<<70, 1>>}

\* outcomes of random.uniform(-0.02, 0.02): the two ends of the range
Changes == {<<0 - 1, 50>>, <<1, 50>>}

\* what the strategy's decide can return: HOLD carries no side
Decisions ==
    {[action |-> "HOLD", side |-> "None", confidence |-> 0,
      reasoning |-> "Waiting for signal"],
     [action |-> "BUY", side |-> "YES", confidence |-> 80,
      reasoning |-> "signal"],
     [action |-> "BUY", side |-> "NO", confidence |-> 80,
      reasoning |-> "signal"],
     [action |-> "SELL", side |-> "YES", confidence |-> 80,
      reasoning |-> "signal"]}

\* amount_usd = 50.0, the fixed stake of a tick
STAKE == <<50, 1>>

\* clamp_price without the lower end
clamp_price_no_floor(x) ==
    LET high == <<99, 100>>
    IN  IF RLt(high, x) THEN high ELSE x

\* max(0.01, min(0.99, x))
clamp_price(x) ==
    LET low == <<1, 100>>
        high == <<99, 100>>
        capped == IF RLt(high, x) THEN high ELSE x
    IN  IF RLt(capped, low) THEN low ELSE capped

\* success as computed by the tick: the value returned by buy, and
\* pnl != 0 for a sell
order_success(action, r) ==
    IF action = "BUY" THEN r.success ELSE r.realized_pnl # Zero

\* execution_result of the decision record
execution_result(action, success) ==
    IF action = "BUY"
    THEN (IF success THEN "success" ELSE "insufficient_funds")
    ELSE (IF success THEN "success" ELSE "no_position")

\* the decision record handed to db.insert_decision
decision_record(target, decision, success) ==
    [market_id |-> target,
     market_question |-> MARKETS_DB[target].question,
     action |-> decision.action,
     side |-> decision.side,
     confidence |-> decision.confidence,
     reasoning |-> decision.reasoning,
     was_executed |-> IF decision.action # "HOLD" /\ success THEN 1 ELSE 0,
     execution_result |->
         IF decision.action = "HOLD" THEN "None"
         ELSE execution_result(decision.action, success)]

\* trade_data of an order that succeeded (id and timestamp left out)
trade_data(target, decision, price, pnl) ==
    [market_id |-> target,
     market_question |-> MARKETS_DB[target].question,
     action |-> decision.action,
     side |-> decision.side,
     quantity |-> IF decision.action = "BUY"
                  THEN Round(RDiv(STAKE, price), 2) ELSE Zero,
     price |-> Round(price, 4),
     total_cost |-> Round(STAKE, 2),
     confidence |-> decision.confidence,
     reasoning |-> decision.reasoning,
     profit_loss |-> IF decision.action = "SELL" THEN pnl ELSE None]

\* db.get_win_rate(): the share of winning trades among those with a P&L
get_win_rate(trades) ==
    LET rows == {i \in 1..Len(trades) : trades[i].profit_loss # None}
        wins == {i \in rows : RGt(trades[i].profit_loss, Zero)}
    IN  IF rows = {} THEN Zero
        ELSE Round(RMul(<<Cardinality(wins), Cardinality(rows)>>,
                        <<100, 1>>), 1)

\* trade_events with the activity log appended before the trade
trade_events_log_first(trade, decision) ==
    <<[type |-> "ACTIVITY_LOG",
       payload |-> [type |-> "TRADE", severity |-> "success",
                    message |-> <<decision.action, decision.side,
                                  trade.market_question>>,
                    details |-> decision.reasoning]],
      [type |-> "TRADE_EXECUTED",
       payload |-> [marketId |-> trade.market_id,
                    marketQuestion |-> trade.market_question,
                    action |-> trade.action,
                    side |-> trade.side,
                    quantity |-> trade.quantity,
                    price |-> trade.price,
                    totalCost |-> trade.total_cost,
                    confidence |-> trade.confidence,
                    reasoning |-> trade.reasoning,
                    profitLoss |-> trade.profit_loss]]>>

\* the TRADE_EXECUTED and ACTIVITY_LOG events of an order that succeeded
trade_events(trade, decision) ==
    <<[type |-> "TRADE_EXECUTED",
       payload |-> [marketId |-> trade.market_id,
                    marketQuestion |-> trade.market_question,
                    action |-> trade.action,
                    side |-> trade.side,
                    quantity |-> trade.quantity,
                    price |-> trade.price,
                    totalCost |-> trade.total_cost,
                    confidence |-> trade.confidence,
                    reasoning |-> trade.reasoning,
                    profitLoss |-> trade.profit_loss]],
      [type |-> "ACTIVITY_LOG",
       payload |-> [type |-> "TRADE", severity |-> "success",
                    message |-> <<decision.action, decision.side,
                                  trade.market_question>>,
                    details |-> decision.reasoning]]>>

\* market_update that always names the first market of MARKETS_DB
market_update_first_market(target, price) ==
    [type |-> "MARKET_UPDATE",
     payload |-> [id |-> "mkt_btc_150k",
                  question |-> MARKETS_DB["mkt_btc_150k"].question,
                  category |-> MARKETS_DB["mkt_btc_150k"].category,
                  currentPrice |-> Round(price, 4),
                  resolved |-> FALSE]]

\* the MARKET_UPDATE event of a tick
market_update(target, price) ==
    [type |-> "MARKET_UPDATE",
     payload |-> [id |-> target,
                  question |-> MARKETS_DB[target].question,
                  category |-> MARKETS_DB[target].category,
                  currentPrice |-> Round(price, 4),
                  resolved |-> FALSE]]

\* the PORTFOLIO_UPDATE event of a tick
portfolio_update(snapshot) ==
    [type |-> "PORTFOLIO_UPDATE", payload |-> snapshot]

\* the BOT_STATUS event of a tick, from the trades of the database and the
\* positions of the wallet
bot_status(trades, pos_map) ==
    [type |-> "BOT_STATUS",
     payload |-> [isConnected |-> TRUE,
                  totalTrades |-> Len(trades),
                  winRate |-> get_win_rate(trades),
                  activePositions |-> Cardinality(DOMAIN pos_map),
                  mode |-> "PAPER",
                  version |-> "1.0.0"]]

\* tick_events with the valuation skipped when no trade was executed
tick_events_valuation_on_trade(update, traded, valuation, status) ==
    <<update>> \o traded
    \o (IF traded = <<>> THEN <<status>> ELSE <<valuation, status>>)

\* the list a tick returns: the events in the order of their append
tick_events(update, traded, valuation, status) ==
    <<update>> \o traded \o <<valuation, status>>

\* hold that logs a transaction in the wallet
hold_logging(target) ==
    /\ call' = [NoCall EXCEPT !.op = "hold", !.market_id = target]
    /\ pre' = wallet
    /\ ret' = NoRet
    /\ transaction_history' =
         append_transaction(transaction_history,
                            log_transaction("HOLD", target,
                                            MARKETS_DB[target].question,
                                            "None", Zero, Zero, Zero))
    /\ UNCHANGED <<cash_balance, initial_balance, positions, written_off>>

\* the wallet call of a tick whose decision is HOLD: none
hold(target) ==
    /\ call' = [NoCall EXCEPT !.op = "hold", !.market_id = target]
    /\ pre' = wallet
    /\ ret' = NoRet
    /\ UNCHANGED <<cash_balance, initial_balance, positions,
                   transaction_history, written_off>>

test_simulation(target, change, decision) ==
    LET price == clamp_price(RAdd(markets[target], change))
        question == MARKETS_DB[target].question
        current_prices ==
            [m \in DOMAIN markets |-> IF m = target THEN price ELSE markets[m]]
    IN  /\ markets' = [markets EXCEPT ![target] = price]
        /\ IF decision.action = "BUY"
           THEN buy(target, question, decision.side, price, STAKE)
           ELSE IF decision.action = "SELL"
           THEN sell(target, price, None)
           ELSE hold(target)
        /\ LET success == /\ decision.action # "HOLD"
                          /\ order_success(decision.action, ret')
               record == decision_record(target, decision, success)
               trade == trade_data(target, decision, price,
                                   ret'.realized_pnl)
               trades == IF success THEN Append(db.trades, trade)
                         ELSE db.trades
               snapshot == snapshot_from(cash_balance', positions',
                                         initial_balance, current_prices,
                                         clock)
           IN  /\ db' =
                    [market_snapshots |->
                         Append(db.market_snapshots,
                                [market_id |-> target,
                                 question |-> question,
                                 category |-> MARKETS_DB[target].category,
                                 price |-> price]),
                     trades |-> trades,
                     activity_logs |->
                         IF success
                         THEN Append(db.activity_logs,
                                     [type |-> "TRADE",
                                      severity |-> "success",
                                      message |-> <<decision.action,
                                                    decision.side, question>>,
                                      details |-> decision.reasoning])
                         ELSE db.activity_logs,
                     bot_decisions |-> Append(db.bot_decisions, record),
                     portfolio_snapshots |->
                         Append(db.portfolio_snapshots, snapshot)]
               /\ events' =
                    tick_events(market_update(target, price),
                                IF success
                                THEN trade_events(trade, decision)
                                ELSE <<>>,
                                portfolio_update(snapshot),
                                bot_status(trades, positions'))
        /\ responses' = Append(responses, "returned")
        /\ UNCHANGED read_vars

\* the wallet of main.py when the database holds no snapshot yet
TickWalletInit ==
    /\ cash_balance \in TickStartingBalances
    /\ initial_balance = cash_balance
    /\ positions = <<>>
    /\ transaction_history = <<>>
    /\ call = NoCall
    /\ ret = NoRet
    /\ pre = [cash_balance |-> cash_balance, positions |-> <<>>,
              transaction_history |-> <<>>]
    /\ written_off = Zero
    /\ clock = 0
    /\ snap = NoSnapshot
    /\ prev_snap = NoSnapshot
    /\ formatted = NoFormatted
    /\ TickInit
    /\ ThreadsInit

TickNext ==
    \E target \in DOMAIN MARKETS_DB, change \in Changes,
       decision \in Decisions :
        /\ Len(responses) < MaxTicks
        /\ test_simulation(target, change, decision)
        /\ UNCHANGED thread_vars /\ UNCHANGED returned_vars

SpecTick == TickWalletInit /\ [][TickNext]_vars

\* ------------------------------------------------------------------------
\* The prices of MARKETS_DB over a longer run of ticks in which the strategy
\* answers HOLD
\* ------------------------------------------------------------------------
\* Bound on the number of ticks of the run.
MaxMarketTicks == 5

\* the answer of the strategy in these ticks
HoldDecisions == {decision \in Decisions : decision.action = "HOLD"}

MarketNext ==
    \E target \in DOMAIN MARKETS_DB, change \in Changes,
       decision \in HoldDecisions :
        /\ Len(responses) < MaxMarketTicks
        /\ test_simulation(target, change, decision)
        /\ UNCHANGED thread_vars /\ UNCHANGED returned_vars

SpecMarket == TickWalletInit /\ [][MarketNext]_vars

\* ------------------------------------------------------------------------
\* The endpoints of main.py handled by the threads of the server: get_tick
\* and get_stats are plain functions, each request runs on a worker thread
\* and the wallet, MARKETS_DB and the database are shared without a lock.
\* A thread can be suspended wherever it makes a call; each action below is
\* the code between two such places.
\* ------------------------------------------------------------------------
\* the configured initial balance of the service
ServiceStartingBalances == {<<170, 1>>}

\* the entries of MARKETS_DB that random.choice returns to the requests
ServiceTargets == {"mkt_btc_150k"}

\* the cash and positions of the wallet after the step
wallet_after == [cash_balance |-> cash_balance', positions |-> positions']

\* test_simulation up to db.insert_market_snapshot: the price of the target
\* moves and its snapshot is persisted
tick_market(t, target, change) ==
    LET price == clamp_price(RAdd(markets[target], change))
    IN  /\ threads[t].pc = "idle"
        /\ markets' = [markets EXCEPT ![target] = price]
        /\ db' = [db EXCEPT !.market_snapshots =
                     Append(@, [market_id |-> target,
                                question |-> MARKETS_DB[target].question,
                                category |-> MARKETS_DB[target].category,
                                price |-> price])]
        /\ threads' = [threads EXCEPT ![t] =
                          [@ EXCEPT !.pc = "decide", !.target = target,
                                    !.change = change,
                                    !.prices = markets']]
        /\ UNCHANGED <<cash_balance, initial_balance, positions,
                       transaction_history, call, ret, pre, written_off,
                       events, responses, wallet_states>>
        /\ UNCHANGED read_vars /\ UNCHANGED returned_vars

\* test_simulation from bot_strategy.decide to db.insert_activity_log: the
\* order is sent to the wallet at the price MARKETS_DB holds by then
tick_order(t, decision) ==
    LET target == threads[t].target
        price == markets[target]
        question == MARKETS_DB[target].question
    IN  /\ threads[t].pc = "decide"
        /\ IF decision.action = "BUY"
           THEN buy(target, question, decision.side, price, STAKE)
           ELSE IF decision.action = "SELL"
           THEN sell(target, price, None)
           ELSE hold(target)
        /\ LET success == /\ decision.action # "HOLD"
                          /\ order_success(decision.action, ret')
               trade == trade_data(target, decision, price,
                                   ret'.realized_pnl)
           IN  /\ db' = IF success
                        THEN [db EXCEPT
                                !.trades = Append(@, trade),
                                !.activity_logs =
                                    Append(@, [type |-> "TRADE",
                                               severity |-> "success",
                                               message |->
                                                   <<decision.action,
                                                     decision.side, question>>,
                                               details |->
                                                   decision.reasoning])]
                        ELSE db
               /\ threads' = [threads EXCEPT ![t] =
                                 [@ EXCEPT !.pc = "valuation",
                                           !.decision = decision,
                                           !.success = success,
                                           !.trade = trade,
                                           !.cash_balance = cash_balance',
                                           !.positions = positions']]
        /\ wallet_states' = wallet_states \cup {wallet_after}
        /\ UNCHANGED <<markets, events, responses>>
        /\ UNCHANGED read_vars /\ UNCHANGED returned_vars

\* test_simulation from db.insert_decision to the end: the decision and the
\* portfolio snapshot are persisted and the events returned
tick_valuation(t) ==
    LET th == threads[t]
        snapshot == snapshot_from(cash_balance, positions, initial_balance,
                                  markets, clock)
        record == decision_record(th.target, th.decision, th.success)
    IN  /\ th.pc = "valuation"
        /\ db' = [db EXCEPT !.bot_decisions = Append(@, record),
                            !.portfolio_snapshots = Append(@, snapshot)]
        /\ events' =
             tick_events(market_update(th.target,
                                       th.prices[th.target]),
                         IF th.success
                         THEN trade_events(th.trade, th.decision)
                         ELSE <<>>,
                         portfolio_update(snapshot),
                         bot_status(db.trades, positions))
        /\ responses' = Append(responses, "returned")
        /\ threads' = [threads EXCEPT ![t] =
                          [@ EXCEPT !.pc = "done", !.result = events']]
        /\ UNCHANGED <<cash_balance, initial_balance, positions,
                       transaction_history, call, ret, pre, written_off,
                       markets, wallet_states>>
        /\ UNCHANGED read_vars /\ UNCHANGED returned_vars

\* what get_stats hands to the database from what it reads: the snapshot
\* and the number of open positions
stats_of(cash_total, cash_field, pos_map, pos_now, prices) ==
    [snapshot |-> snapshot_reads(cash_total, cash_field, pos_map,
                                 initial_balance, prices, clock),
     activePositions |-> Cardinality(DOMAIN pos_now)]

\* get_stats up to the end of the loop of get_snapshot: the prices are
\* copied and the positions valued
stats_value(t) ==
    /\ threads[t].pc = "idle"
    /\ threads' = [threads EXCEPT ![t] =
                      [@ EXCEPT !.pc = "valued", !.prices = markets,
                                !.positions = positions]]
    /\ UNCHANGED <<cash_balance, initial_balance, positions,
                   transaction_history, call, ret, pre, written_off,
                   wallet_states>>
    /\ UNCHANGED read_vars /\ UNCHANGED tick_vars /\ UNCHANGED returned_vars

\* get_snapshot from the end of its loop to the first call of round: the
\* cash is read and added to the value of the positions
stats_total(t) ==
    /\ threads[t].pc = "valued"
    /\ threads' = [threads EXCEPT ![t] =
                      [@ EXCEPT !.pc = "totalled",
                                !.cash_balance = cash_balance]]
    /\ UNCHANGED <<cash_balance, initial_balance, positions,
                   transaction_history, call, ret, pre, written_off,
                   wallet_states>>
    /\ UNCHANGED read_vars /\ UNCHANGED tick_vars /\ UNCHANGED returned_vars

\* the rest of get_stats: the cash is read again for the cashBalance field
\* and the open positions are counted
stats_fields(t) ==
    /\ threads[t].pc = "totalled"
    /\ threads' = [threads EXCEPT ![t] =
                      [@ EXCEPT !.pc = "done",
                                !.result =
                                    stats_of(threads[t].cash_balance,
                                             cash_balance,
                                             threads[t].positions,
                                             positions, threads[t].prices)]]
    /\ UNCHANGED <<cash_balance, initial_balance, positions,
                   transaction_history, call, ret, pre, written_off,
                   wallet_states>>
    /\ UNCHANGED read_vars /\ UNCHANGED tick_vars /\ UNCHANGED returned_vars

\* the service of main.py when the database holds no snapshot yet
ServiceInit ==
    /\ cash_balance \in ServiceStartingBalances
    /\ initial_balance = cash_balance
    /\ positions = <<>>
    /\ transaction_history = <<>>
    /\ call = NoCall
    /\ ret = NoRet
    /\ pre = [cash_balance |-> cash_balance, positions |-> <<>>,
              transaction_history |-> <<>>]
    /\ written_off = Zero
    /\ clock = 0
    /\ snap = NoSnapshot
    /\ prev_snap = NoSnapshot
    /\ formatted = NoFormatted
    /\ TickInit
    /\ strategy = NoStrategy
    /\ timestamps = <<>>
    /\ threads = [t \in TickThreads \cup StatsThreads |-> IdleThread]
    /\ wallet_states = {[cash_balance |-> cash_balance, positions |-> <<>>]}

ServiceNext ==
    \/ \E t \in TickThreads, target \in ServiceTargets,
          change \in Changes :
           tick_market(t, target, change)
    \/ \E t \in TickThreads, decision \in Decisions : tick_order(t, decision)
    \/ \E t \in TickThreads : tick_valuation(t)
    \/ \E t \in StatsThreads : stats_value(t)
    \/ \E t \in StatsThreads : stats_total(t)
    \/ \E t \in StatsThreads : stats_fields(t)

SpecService == ServiceInit /\ [][ServiceNext]_vars

\* ------------------------------------------------------------------------
\* test_simulation when one of the calls it makes raises: the strategy or a
\* write of the database. Nothing in test_simulation or get_tick catches
\* an exception, so the tick ends at the call that raised.
\* ------------------------------------------------------------------------
\* Bound on the number of ticks, failed or not.
MaxFailingTicks == 2

\* the calls of a tick that can raise
Failures ==
    {"insert_market_snapshot", "decide", "insert_trade", "insert_decision"}

\* call_order with the order sent to the wallet before the strategy is asked
call_order_decide_late ==
    <<"insert_market_snapshot", "order", "decide", "insert_trade",
      "insert_activity_log", "insert_decision",
      "insert_portfolio_snapshot">>

\* the calls of test_simulation in the order in which it makes them;
\* "order" is the call of wallet.buy or wallet.sell
call_order ==
    <<"insert_market_snapshot", "decide", "order", "insert_trade",
      "insert_activity_log", "insert_decision",
      "insert_portfolio_snapshot">>

\* the rank of a call in the tick
call_rank(c) == CHOOSE i \in 1..Len(call_order) : call_order[i] = c

\* the wallet of a tick that ended before its order
aborted(target) ==
    /\ call' = [NoCall EXCEPT !.op = "aborted", !.market_id = target]
    /\ pre' = wallet
    /\ ret' = NoRet
    /\ UNCHANGED <<cash_balance, initial_balance, positions,
                   transaction_history, written_off>>

\* a tick in which the call failure raises: the calls before it have had
\* their effect, the others are not made and nothing is returned
test_simulation_raising(target, change, decision, failure) ==
    LET price == clamp_price(RAdd(markets[target], change))
        question == MARKETS_DB[target].question
        current_prices ==
            [m \in DOMAIN markets |-> IF m = target THEN price ELSE markets[m]]
        reached(c) == call_rank(c) < call_rank(failure)
    IN  /\ Len(responses) < MaxFailingTicks
        /\ markets' = [markets EXCEPT ![target] = price]
        /\ IF ~reached("order")
           THEN aborted(target)
           ELSE IF decision.action = "BUY"
           THEN buy(target, question, decision.side, price, STAKE)
           ELSE IF decision.action = "SELL"
           THEN sell(target, price, None)
           ELSE hold(target)
        /\ LET success == /\ reached("order")
                          /\ decision.action # "HOLD"
                          /\ order_success(decision.action, ret')
               record == decision_record(target, decision, success)
               trade == trade_data(target, decision, price,
                                   ret'.realized_pnl)
               snapshot == snapshot_from(cash_balance', positions',
                                         initial_balance, current_prices,
                                         clock)
           IN  /\ failure \in {"insert_trade", "insert_activity_log"}
                     => success
               /\ db' =
                    [market_snapshots |->
                         IF reached("insert_market_snapshot")
                         THEN Append(db.market_snapshots,
                                     [market_id |-> target,
                                      question |-> question,
                                      category |->
                                          MARKETS_DB[target].category,
                                      price |-> price])
                         ELSE db.market_snapshots,
                     trades |->
                         IF success /\ reached("insert_trade")
                         THEN Append(db.trades, trade)
                         ELSE db.trades,
                     activity_logs |->
                         IF success /\ reached("insert_activity_log")
                         THEN Append(db.activity_logs,
                                     [type |-> "TRADE",
                                      severity |-> "success",
                                      message |-> <<decision.action,
                                                    decision.side, question>>,
                                      details |-> decision.reasoning])
                         ELSE db.activity_logs,
                     bot_decisions |->
                         IF reached("insert_decision")
                         THEN Append(db.bot_decisions, record)
                         ELSE db.bot_decisions,
                     portfolio_snapshots |->
                         IF reached("insert_portfolio_snapshot")
                         THEN Append(db.portfolio_snapshots, snapshot)
                         ELSE db.portfolio_snapshots]
        /\ events' = <<>>
        /\ responses' = Append(responses, failure)
        /\ UNCHANGED read_vars

FailingNext ==
    \/ \E target \in DOMAIN MARKETS_DB, change \in Changes,
          decision \in Decisions :
           /\ Len(responses) < MaxFailingTicks
           /\ test_simulation(target, change, decision)
           /\ UNCHANGED thread_vars /\ UNCHANGED returned_vars
    \/ \E target \in DOMAIN MARKETS_DB, change \in Changes,
          decision \in Decisions, failure \in Failures :
           /\ test_simulation_raising(target, change, decision, failure)
           /\ UNCHANGED thread_vars /\ UNCHANGED returned_vars

SpecFailing == TickWalletInit /\ [][FailingNext]_vars

\* ------------------------------------------------------------------------
\* The strategies: BotBrain.decide (backend/bot_brain.py) and
\* BotStrategy.analyze_market (backend/bot.py)
\* ------------------------------------------------------------------------
\* values of random.random() for the draw that decides the action
Draws ==
    {Zero, <<1, 4>>, <<3, 10>>, <<1, 2>>, <<3, 5>>, <<7, 10>>, <<9, 10>>,
     <<19, 20>>}

\* values of random.random() for the draw that decides the side
SideDraws == {<<2, 5>>, <<1, 2>>, <<3, 5>>}

\* values of random.randint(70, 95)
Confidences == {70, 95}

\* the instances of BotStrategy: a prudent one without preferred category
\* and two that prefer crypto
Bots ==
    {[risk_tolerance |-> <<1, 10>>, preferred_categories |-> {}],
     [risk_tolerance |-> <<1, 2>>, preferred_categories |-> {"crypto"}],
     [risk_tolerance |-> <<1, 1>>, preferred_categories |-> {"crypto"}]}

\* the first entries of the lists from which the reasoning is drawn
reasons == <<"Volume spike detected indicating institutional interest.",
             "Sentiment analysis on X shows positive momentum.">>

BUY_REASONS == <<"Analyse de sentiment positive sur Twitter/X.",
                 "Detection d'un pic de volume inhabituel.">>

SELL_REASONS == <<"Prise de profit automatique (Target atteinte).",
                  "La tendance s'inverse, fermeture defensive.">>

\* int(x) for a rational that is not negative
int(x) == x[1] \div x[2]

\* decide that sells where BotBrain.decide waits
decide_selling(trade_draw, side_draw, confidence, reason) ==
    IF RLt(trade_draw, <<9, 10>>)
    THEN [action |-> "SELL", side |-> "None", confidence |-> 0,
          reasoning |-> "Waiting for signal"]
    ELSE [action |-> "BUY",
          side |-> IF RGt(side_draw, <<1, 2>>) THEN "YES" ELSE "NO",
          confidence |-> confidence,
          reasoning |-> reasons[reason]]

\* the dict BotBrain.decide returns for its draws; HOLD carries no side
decide(trade_draw, side_draw, confidence, reason) ==
    IF RLt(trade_draw, <<9, 10>>)
    THEN [action |-> "HOLD", side |-> "None", confidence |-> 0,
          reasoning |-> "Waiting for signal"]
    ELSE [action |-> "BUY",
          side |-> IF RGt(side_draw, <<1, 2>>) THEN "YES" ELSE "NO",
          confidence |-> confidence,
          reasoning |-> reasons[reason]]

\* the score of analyze_market: the draw plus the bonus of a preferred
\* category
score_of(bot, category, draw) ==
    IF category \in bot.preferred_categories
    THEN RAdd(draw, <<3, 20>>)
    ELSE draw

\* threshold_buy with the comparison not strict
is_buy_at_threshold(bot, score) ==
    RLe(RSub(<<4, 5>>, RMul(bot.risk_tolerance, <<1, 5>>)), score)

\* score > threshold_buy
is_buy(bot, score) ==
    RGt(score, RSub(<<4, 5>>, RMul(bot.risk_tolerance, <<1, 5>>)))

\* score < threshold_sell
is_sell(score) == RLt(score, <<3, 10>>)

\* the dict BotStrategy.analyze_market returns for its draws
analyze_market(bot, category, draw, side_draw, reason) ==
    LET score == score_of(bot, category, draw)
    IN  [action |-> IF is_buy(bot, score) THEN "BUY"
                    ELSE IF is_sell(score) THEN "SELL"
                    ELSE "HOLD",
         confidence |-> int(RMul(score, <<100, 1>>)),
         reasoning |->
             IF is_buy(bot, score) THEN BUY_REASONS[reason]
             ELSE IF is_sell(score) THEN SELL_REASONS[reason]
             ELSE "Marche en observation. Pas de signal clair.",
         side |-> IF RGt(side_draw, <<2, 5>>) THEN "YES" ELSE "NO"]

\* BotBrain_decide that resets the price of the market it is asked about
BotBrain_decide_writing(market, trade_draw, side_draw, confidence, reason) ==
    /\ strategy' =
         [op |-> "decide", category |-> MARKETS_DB[market].category,
          risk_tolerance |-> Zero, preferred_categories |-> {},
          draw |-> trade_draw,
          decision |-> decide(trade_draw, side_draw, confidence, reason)]
    /\ markets' = [markets EXCEPT ![market] = MARKETS_DB[market].price]
    /\ UNCHANGED <<cash_balance, initial_balance, positions,
                   transaction_history, call, ret, pre, written_off,
                   db, events, responses, timestamps>>
    /\ UNCHANGED read_vars /\ UNCHANGED thread_vars

\* a call of BotBrain.decide: it returns its dict and writes nothing
BotBrain_decide(market, trade_draw, side_draw, confidence, reason) ==
    /\ strategy' =
         [op |-> "decide", category |-> MARKETS_DB[market].category,
          risk_tolerance |-> Zero, preferred_categories |-> {},
          draw |-> trade_draw,
          decision |-> decide(trade_draw, side_draw, confidence, reason)]
    /\ UNCHANGED <<cash_balance, initial_balance, positions,
                   transaction_history, call, ret, pre, written_off,
                   timestamps>>
    /\ UNCHANGED read_vars /\ UNCHANGED tick_vars /\ UNCHANGED thread_vars

\* a call of BotStrategy.analyze_market: it returns its dict and writes
\* nothing
BotStrategy_analyze_market(bot, market, draw, side_draw, reason) ==
    /\ strategy' =
         [op |-> "analyze_market", category |-> MARKETS_DB[market].category,
          risk_tolerance |-> bot.risk_tolerance,
          preferred_categories |-> bot.preferred_categories,
          draw |-> draw,
          decision |-> analyze_market(bot, MARKETS_DB[market].category,
                                      draw, side_draw, reason)]
    /\ UNCHANGED <<cash_balance, initial_balance, positions,
                   transaction_history, call, ret, pre, written_off,
                   timestamps>>
    /\ UNCHANGED read_vars /\ UNCHANGED tick_vars /\ UNCHANGED thread_vars

StrategyNext ==
    \/ \E market \in DOMAIN MARKETS_DB, trade_draw \in Draws,
          side_draw \in SideDraws, confidence \in Confidences,
          reason \in DOMAIN reasons :
           BotBrain_decide(market, trade_draw, side_draw, confidence, reason)
    \/ \E bot \in Bots, market \in DOMAIN MARKETS_DB, draw \in Draws,
          side_draw \in SideDraws, reason \in DOMAIN BUY_REASONS :
           BotStrategy_analyze_market(bot, market, draw, side_draw, reason)

SpecStrategy == TickWalletInit /\ [][StrategyNext]_vars

\* ------------------------------------------------------------------------
\* The strategies called between the ticks of a service whose wallet holds
\* positions
\* ------------------------------------------------------------------------
\* Bound on the number of ticks.
MaxDecideTicks == 2

\* values of random.random() on either side of the thresholds
FewDraws == {<<1, 2>>, <<19, 20>>}

DecideNext ==
    \/ \E market \in DOMAIN MARKETS_DB, trade_draw \in FewDraws :
           BotBrain_decide(market, trade_draw, <<3, 5>>, 70, 1)
    \/ \E bot \in Bots, market \in DOMAIN MARKETS_DB, draw \in FewDraws :
           BotStrategy_analyze_market(bot, market, draw, <<3, 5>>, 1)
    \/ \E target \in DOMAIN MARKETS_DB, change \in Changes,
          decision \in Decisions :
           /\ Len(responses) < MaxDecideTicks
           /\ test_simulation(target, change, decision)
           /\ UNCHANGED thread_vars /\ UNCHANGED returned_vars

SpecDecide == TickWalletInit /\ [][DecideNext]_vars

\* ------------------------------------------------------------------------
\* The service as wired in main.py: the decisions of the ticks are those
\* of BotBrain.decide
\* ------------------------------------------------------------------------
\* Bound on the number of ticks.
MaxBrainTicks == 3

\* get_tick with my_bot = BotBrain(...)
BrainNext ==
    \E target \in DOMAIN MARKETS_DB, change \in Changes,
       trade_draw \in FewDraws, side_draw \in SideDraws :
        /\ Len(responses) < MaxBrainTicks
        /\ test_simulation(target, change,
                           decide(trade_draw, side_draw, 70, 1))
        /\ UNCHANGED thread_vars /\ UNCHANGED returned_vars

SpecBrain == TickWalletInit /\ [][BrainNext]_vars

\* ------------------------------------------------------------------------
\* The timestamps: datetime.utcnow().isoformat() + "Z"
\* ------------------------------------------------------------------------
\* Bound on the number of timestamps taken.
MaxTimestamps == 3

\* the instants datetime.utcnow() returns, on one day: a whole second, a
\* whole millisecond, and an instant with microseconds
Instants ==
    {[hour |-> 14, minute |-> 30, second |-> sec, microsecond |-> us] :
        sec \in {0, 59}, us \in {0, 123000, 123456}}

\* the character of one decimal digit
digit(n) ==
    CASE n = 0 -> "0" [] n = 1 -> "1" [] n = 2 -> "2" [] n = 3 -> "3"
      [] n = 4 -> "4" [] n = 5 -> "5" [] n = 6 -> "6" [] n = 7 -> "7"
      [] n = 8 -> "8" [] n = 9 -> "9"

\* n written with width digits, zero-padded, as a list of characters
RECURSIVE zero_padded(_, _)
zero_padded(n, width) ==
    IF width = 0 THEN <<>>
    ELSE Append(zero_padded(n \div 10, width - 1), digit(n % 10))

\* datetime.isoformat(): the date, "T", HH:MM:SS, and the microseconds
\* as ".ffffff" only when they are not zero
isoformat(now) ==
    <<"2", "0", "2", "6", "-", "0", "2", "-", "0", "7", "T">>
    \o zero_padded(now.hour, 2) \o <<":">>
    \o zero_padded(now.minute, 2) \o <<":">>
    \o zero_padded(now.second, 2)
    \o (IF now.microsecond = 0 THEN <<>>
        ELSE <<".">> \o zero_padded(now.microsecond, 6))

\* the text returned at the instant now
get_iso_time(now) == isoformat(now) \o <<"Z">>

\* a timestamp is taken for an event, a snapshot or a transaction
take_timestamp(now) ==
    /\ Len(timestamps) < MaxTimestamps
    /\ timestamps' = Append(timestamps, get_iso_time(now))
    /\ UNCHANGED <<cash_balance, initial_balance, positions,
                   transaction_history, call, ret, pre, written_off,
                   strategy>>
    /\ UNCHANGED read_vars /\ UNCHANGED tick_vars /\ UNCHANGED thread_vars

TimeNext == \E now \in Instants : take_timestamp(now)

SpecTime == TickWalletInit /\ [][TimeNext]_vars

\* ------------------------------------------------------------------------
\* The restart of the service: main.py builds the wallet again from the
\* latest portfolio snapshot of the database
\* ------------------------------------------------------------------------
\* Bounds on the number of ticks and on the readings of the clock.
MaxRestartTicks == 2

MaxRestartClock == 2

\* datetime.utcnow() when the clock reads t, in half seconds from
\* 14:30:00.000000
utcnow(t) ==
    [hour |-> 14, minute |-> 30, second |-> t \div 2,
     microsecond |-> (t % 2) * 500000]

\* the code of a character of a timestamp
ord(c) ==
    CASE c = "-" -> 45 [] c = "." -> 46 [] c = "0" -> 48 [] c = "1" -> 49
      [] c = "2" -> 50 [] c = "3" -> 51 [] c = "4" -> 52 [] c = "5" -> 53
      [] c = "6" -> 54 [] c = "7" -> 55 [] c = "8" -> 56 [] c = "9" -> 57
      [] c = ":" -> 58 [] c = "T" -> 84 [] c = "Z" -> 90

\* the order of the TEXT column timestamp: byte by byte, a proper prefix
\* first
RECURSIVE text_less(_, _)
text_less(a, b) ==
    IF b = <<>> THEN FALSE
    ELSE IF a = <<>> THEN TRUE
    ELSE IF ord(Head(a)) # ord(Head(b)) THEN ord(Head(a)) < ord(Head(b))
    ELSE text_less(Tail(a), Tail(b))

\* the text stored in the column timestamp for a snapshot taken when the
\* clock read t
stored_timestamp(snapshot) == get_iso_time(utcnow(snapshot.timestamp))

\* SELECT * FROM portfolio_snapshots ORDER BY timestamp DESC LIMIT 1, for
\* a table that is not empty
get_latest_snapshot(snapshots) ==
    CHOOSE i \in 1..Len(snapshots) :
        \A j \in 1..Len(snapshots) :
            j # i => text_less(stored_timestamp(snapshots[j]),
                               stored_timestamp(snapshots[i]))

\* the process is started again on the same database: my_wallet is a new
\* PaperWallet and MARKETS_DB holds the prices of the source again
startup ==
    /\ call' = [NoCall EXCEPT !.op = "startup"]
    /\ pre' = wallet
    /\ ret' = NoRet
    /\ cash_balance' =
         IF db.portfolio_snapshots # <<>>
         THEN db.portfolio_snapshots[
                  get_latest_snapshot(db.portfolio_snapshots)].cashBalance
         ELSE initial_balance
    /\ positions' = <<>>
    /\ transaction_history' = <<>>
    /\ markets' = [m \in DOMAIN MARKETS_DB |-> MARKETS_DB[m].price]
    /\ UNCHANGED <<initial_balance, written_off, db, events, responses>>
    /\ UNCHANGED read_vars /\ UNCHANGED thread_vars
    /\ UNCHANGED returned_vars

\* time passes between two requests
time_passes ==
    /\ clock < MaxRestartClock
    /\ clock' = clock + 1
    /\ UNCHANGED <<cash_balance, initial_balance, positions,
                   transaction_history, call, ret, pre, written_off,
                   snap, prev_snap, formatted>>
    /\ UNCHANGED tick_vars /\ UNCHANGED thread_vars
    /\ UNCHANGED returned_vars

RestartNext ==
    \/ \E target \in DOMAIN MARKETS_DB, change \in Changes,
          decision \in Decisions :
           /\ Len(responses) < MaxRestartTicks
           /\ \A i \in 1..Len(db.portfolio_snapshots) :
                 db.portfolio_snapshots[i].timestamp < clock
           /\ test_simulation(target, change, decision)
           /\ UNCHANGED thread_vars /\ UNCHANGED returned_vars
    \/ time_passes
    \/ startup

SpecRestart == TickWalletInit /\ [][RestartNext]_vars

\* ------------------------------------------------------------------------
\* Quantities used by the properties
\* ------------------------------------------------------------------------
RECURSIVE SumBasis(_, _)
\* sum over the instruments of ms of shares x avgEntryPrice
SumBasis(pos_map, ms) ==
    IF ms = {} THEN Zero
    ELSE LET m == CHOOSE x \in ms : TRUE
         IN  RAdd(RMul(pos_map[m].shares, pos_map[m].avgEntryPrice),
                  SumBasis(pos_map, ms \ {m}))

OpenBasis == SumBasis(positions, DOMAIN positions)

RECURSIVE SumPnl(_, _)
\* sum of the pnl of the first n transactions (a BUY carries pnl 0)
SumPnl(h, n) ==
    IF n = 0 THEN Zero ELSE RAdd(h[n].pnl, SumPnl(h, n - 1))

RealizedPnl == SumPnl(transaction_history, Len(transaction_history))

\* the latest call was a buy / a sell that was executed
BuyExecuted == call.op = "buy" /\ ret.success

SellExecuted == call.op = "sell" /\ call.market_id \in DOMAIN pre.positions

\* the position the latest call found for its instrument
PrePos == pre.positions[call.market_id]

LastTx == transaction_history[Len(transaction_history)]

\* ------------------------------------------------------------------------
\* C1 (as stated): cashBalance + sum of shares x avgEntryPrice over the open
\* positions + sum of the realizedPnL of the executed sells equals
\* initialBalance after every sequence of buy and sell calls.
C1_ConservationAsStated ==
    RAdd(RAdd(cash_balance, OpenBasis), RealizedPnl) = initial_balance

\* C1 (amended): cashBalance + sum of shares x avgEntryPrice over the open
\* positions - sum of the realizedPnL of the executed sells + the cost basis
\* of the dust remainders deleted by sell equals initialBalance.
C1_Conservation ==
    RAdd(RSub(RAdd(cash_balance, OpenBasis), RealizedPnl), written_off)
        = initial_balance

\* a sell made a profit or a loss, another deleted a dust remainder, and a
\* position is still open
C1_Witness ==
    /\ RealizedPnl # Zero
    /\ written_off # Zero
    /\ positions # <<>>

\* C2: the cash balance is never below 0, whatever buys and sells (positive
\* price, positive amount) were called.
C2_CashNonNegative == RLe(Zero, cash_balance)

\* a buy asking for more than the cash left was attempted after the cash
\* had already been spent on and recovered from orders
C2_Witness ==
    /\ call.op = "buy"
    /\ RGt(call.amount_usd, cash_balance)
    /\ Len(transaction_history) = 2
    /\ cash_balance # initial_balance

\* C3: a buy whose amount_usd exceeds the cash balance returns False and
\* leaves cash, every position and the transaction log as they were.
C3_RejectedBuyChangesNothing ==
    (call.op = "buy" /\ RGt(call.amount_usd, pre.cash_balance))
        => (ret.success = FALSE /\ wallet = pre)

\* a buy of 1100 was rejected while positions were open
C3_Witness ==
    /\ call.op = "buy"
    /\ RGt(call.amount_usd, pre.cash_balance)
    /\ Cardinality(DOMAIN pre.positions) = 2

\* C4: every open position has totalCost = shares x avgEntryPrice.
C4_CostIsSharesTimesAverage ==
    \A m \in DOMAIN positions :
        positions[m].totalCost
            = RMul(positions[m].shares, positions[m].avgEntryPrice)

\* a position built by two buys at different prices and then reduced by a
\* partial sell
C4_Witness ==
    /\ Len(transaction_history) = 3
    /\ transaction_history[1].action = "BUY"
    /\ transaction_history[2].action = "BUY"
    /\ transaction_history[1].price # transaction_history[2].price
    /\ transaction_history[3].action = "SELL"
    /\ \A i \in 1..3 : transaction_history[i].marketId = "m1"
    /\ "m1" \in DOMAIN positions

\* the latest two transactions are buys of the same instrument and side,
\* the first of them into a fresh position
TwoBuys ==
    LET n == Len(transaction_history)
    IN  /\ BuyExecuted
        /\ n >= 2
        /\ transaction_history[n - 1].action = "BUY"
        /\ transaction_history[n - 1].marketId = call.market_id
        /\ transaction_history[n - 1].side = call.side
        /\ call.market_id \in DOMAIN pre.positions
        /\ PrePos.shares = transaction_history[n - 1].quantity

\* C5: after a buy of shares1 at price1 into a fresh position and a buy of
\* shares2 at price2 into the same instrument and side, the position has
\* shares1 + shares2 shares and
\* avgEntryPrice = (shares1 x price1 + shares2 x price2) / (shares1 + shares2).
C5_WeightedAverage ==
    TwoBuys =>
        LET n == Len(transaction_history)
            shares1 == transaction_history[n - 1].quantity
            price1 == transaction_history[n - 1].price
            shares2 == RDiv(call.amount_usd, call.price)
            price2 == call.price
            pos == positions[call.market_id]
        IN  /\ pos.shares = RAdd(shares1, shares2)
            /\ pos.avgEntryPrice =
                 RDiv(RAdd(RMul(shares1, price1), RMul(shares2, price2)),
                      RAdd(shares1, shares2))

\* two buys of the same instrument and side at different prices
C5_Witness ==
    /\ TwoBuys
    /\ transaction_history[Len(transaction_history) - 1].price # call.price

\* C6: a sell of q shares (q not above the shares held) at price p on a
\* position of average entry price a returns q x p - q x a and credits
\* exactly q x p to the cash; the position, when it stays open, has q
\* shares less and q x a less totalCost.
C6_SellArithmetic ==
    (/\ SellExecuted
     /\ call.shares_to_sell # None
     /\ RLe(call.shares_to_sell, PrePos.shares))
        => LET q == call.shares_to_sell
               p == call.price
               a == PrePos.avgEntryPrice
           IN  /\ ret.realized_pnl = RSub(RMul(q, p), RMul(q, a))
               /\ cash_balance = RAdd(pre.cash_balance, RMul(q, p))
               /\ call.market_id \in DOMAIN positions =>
                    /\ positions[call.market_id].shares
                         = RSub(PrePos.shares, q)
                    /\ positions[call.market_id].totalCost
                         = RSub(PrePos.totalCost, RMul(q, a))

\* from cash 1000, a buy of 100 at 0.40 and then a sell of 125 shares at
\* 0.50: realized 12.5, 125 shares left, cash 962.5
C6_Witness ==
    /\ SellExecuted
    /\ pre.cash_balance = <<900, 1>>
    /\ PrePos.shares = <<250, 1>>
    /\ PrePos.avgEntryPrice = <<2, 5>>
    /\ call.shares_to_sell = <<125, 1>>
    /\ call.price = <<1, 2>>
    /\ ret.realized_pnl = <<25, 2>>
    /\ positions[call.market_id].shares = <<125, 1>>
    /\ cash_balance = <<1925, 2>>

\* C7: a sell on an instrument without open position returns 0.0 and
\* leaves cash, positions and transaction log as they were.
C7_SellWithoutPosition ==
    (call.op = "sell" /\ call.market_id \notin DOMAIN pre.positions)
        => (ret.realized_pnl = Zero /\ wallet = pre)

\* a second sell right after the full liquidation of the instrument
C7_Witness ==
    /\ call.op = "sell"
    /\ call.market_id \notin DOMAIN pre.positions
    /\ Len(pre.transaction_history) = 2
    /\ pre.transaction_history[1].action = "BUY"
    /\ pre.transaction_history[1].marketId = call.market_id
    /\ pre.transaction_history[2].action = "SELL"
    /\ pre.transaction_history[2].marketId = call.market_id
    /\ pre.transaction_history[2].quantity
         = pre.transaction_history[1].quantity

\* the shares left by the latest sell: those held less those sold
Remaining == RSub(PrePos.shares, LastTx.quantity)

\* C8: after an executed sell the position is absent from the positions
\* map exactly when the shares remaining after the sale are below 0.001.
C8_DustThreshold ==
    SellExecuted =>
        (call.market_id \notin DOMAIN positions <=> RLt(Remaining, DUST))

\* a sale that left a non-zero remainder below 0.001 removed the position
C8_Witness ==
    /\ SellExecuted
    /\ Remaining # Zero
    /\ RLt(Remaining, DUST)
    /\ call.market_id \notin DOMAIN positions

\* sell was called without shares_to_sell or with more than the shares held
SellAll ==
    /\ SellExecuted
    /\ \/ call.shares_to_sell = None
       \/ RGt(call.shares_to_sell, PrePos.shares)

\* C9: a sell without shares_to_sell, or with more than the shares held,
\* sells exactly the shares held: revenue and realizedPnL are those of all
\* the shares and the position is closed.
C9_SellAll ==
    SellAll =>
        LET held == PrePos.shares
        IN  /\ LastTx.action = "SELL"
            /\ LastTx.quantity = held
            /\ cash_balance = RAdd(pre.cash_balance, RMul(held, call.price))
            /\ ret.realized_pnl =
                 RSub(RMul(held, call.price),
                      RMul(held, PrePos.avgEntryPrice))
            /\ call.market_id \notin DOMAIN positions

\* a sell asking for more shares than the position held, at a price other
\* than the average entry price
C9_Witness ==
    /\ SellAll
    /\ call.shares_to_sell # None
    /\ call.price # PrePos.avgEntryPrice

\* C10: a buy of the opposite side of an open position is never averaged
\* into that position.
C10_OppositeSideNotMerged ==
    (/\ BuyExecuted
     /\ call.market_id \in DOMAIN pre.positions
     /\ call.side # PrePos.side)
        => positions[call.market_id] = PrePos

\* h is an initial segment of g
IsPrefix(h, g) ==
    /\ Len(h) <= Len(g)
    /\ \A i \in 1..Len(h) : g[i] = h[i]

\* C11: the transaction log is append-only: across every buy and sell,
\* executed or not, the log before the call is a prefix of the log after it.
C11_LogAppendOnly == IsPrefix(pre.transaction_history, transaction_history)

\* a sell was logged behind two earlier transactions, which are still there
C11_Witness ==
    /\ SellExecuted
    /\ Len(pre.transaction_history) = 2
    /\ Len(transaction_history) = 3

\* the shares the latest sell had to sell: all of them when shares_to_sell
\* is omitted or above the shares held
SharesSold ==
    IF call.shares_to_sell = None \/ RGt(call.shares_to_sell, PrePos.shares)
    THEN PrePos.shares
    ELSE call.shares_to_sell

\* C12: a successful buy appends exactly one BUY transaction with pnl 0 and
\* quantity amount_usd / price; an executed sell appends exactly one SELL
\* transaction whose pnl is the value returned and whose quantity is the
\* shares sold; a rejected buy and a sell without position append nothing.
C12_OneTransactionPerExecutedOrder ==
    LET n == Len(pre.transaction_history)
    IN  /\ BuyExecuted =>
              /\ Len(transaction_history) = n + 1
              /\ LastTx.action = "BUY"
              /\ LastTx.marketId = call.market_id
              /\ LastTx.pnl = Zero
              /\ LastTx.quantity = RDiv(call.amount_usd, call.price)
        /\ SellExecuted =>
              /\ Len(transaction_history) = n + 1
              /\ LastTx.action = "SELL"
              /\ LastTx.marketId = call.market_id
              /\ LastTx.pnl = ret.realized_pnl
              /\ LastTx.quantity = SharesSold
        /\ (~BuyExecuted /\ ~SellExecuted) =>
              Len(transaction_history) = n

\* a partial sell at a profit was logged with the pnl it returned
C12_Witness ==
    /\ SellExecuted
    /\ call.shares_to_sell # None
    /\ RLt(call.shares_to_sell, PrePos.shares)
    /\ RGt(ret.realized_pnl, Zero)
    /\ LastTx.pnl = ret.realized_pnl

\* C13: in every snapshot returned by get_snapshot the emitted fields
\* reconcile: totalValue = cashBalance + investedValue.
C13_SnapshotReconciles ==
    snap.returned =>
        snap.result.totalValue
            = RAdd(snap.result.cashBalance, snap.result.investedValue)

RECURSIVE ExpectedInvested(_, _)
\* shares x live price for the instruments that have one, the cost of the
\* position for the others
ExpectedInvested(prices, ms) ==
    IF ms = {} THEN Zero
    ELSE LET m == CHOOSE x \in ms : TRUE
         IN  RAdd(IF m \in DOMAIN prices
                  THEN RMul(positions[m].shares, prices[m])
                  ELSE positions[m].totalCost,
                  ExpectedInvested(prices, ms \ {m}))

\* C14: investedValue is the sum over the open positions of shares x live
\* price, a position without live price counting for its cost basis; such a
\* position is reported at its average entry price with unrealized P&L 0.
C14_InvestedValue ==
    /\ snap.returned =>
          snap.result.investedValue
              = Round(ExpectedInvested(snap.prices, DOMAIN positions), 2)
    /\ formatted.returned =>
          \A m \in DOMAIN positions \ DOMAIN formatted.prices :
              /\ formatted.result[m].unrealizedPnL = Zero
              /\ formatted.result[m].percentChange = Zero
              /\ formatted.result[m].currentPrice
                   = Round(positions[m].avgEntryPrice, 3)

\* a snapshot of two positions, m1 bought at 0.50 and valued at its live
\* price of 0.40, m2 without live price
C14_Witness ==
    /\ snap.returned
    /\ DOMAIN snap.prices = {"m1"}
    /\ DOMAIN positions = {"m1", "m2"}
    /\ positions["m1"].avgEntryPrice # snap.prices["m1"]

\* the latest two calls are get_snapshot with the same current prices
SnapshotTwice ==
    /\ snap.returned
    /\ prev_snap.returned
    /\ snap.prices = prev_snap.prices

\* C15 (as stated): two calls of get_snapshot with the same prices and no
\* mutation in between return the same value in every field and leave the
\* wallet unchanged.
C15_SnapshotIdempotentAsStated ==
    SnapshotTwice => (snap.result = prev_snap.result /\ wallet = pre)

\* C15 (amended): the two snapshots agree in every field other than
\* timestamp, and the wallet is unchanged.
C15_SnapshotIdempotent ==
    /\ SnapshotTwice =>
          \A f \in DOMAIN snap.result \ {"timestamp"} :
              snap.result[f] = prev_snap.result[f]
    /\ call.op = "get_snapshot" => wallet = pre

\* two snapshots of an open position taken at different instants
C15_Witness ==
    /\ SnapshotTwice
    /\ positions # <<>>
    /\ snap.result.timestamp # prev_snap.result.timestamp

\* a tick has run: events holds the messages it returned
TickDone == db.market_snapshots # <<>>

\* the decision record appended by the latest tick
LastDecision == db.bot_decisions[Len(db.bot_decisions)]

\* the types of the events returned by the latest tick
EventTypes == {events[i].type : i \in 1..Len(events)}

\* C18: every tick emits a DECISION event, whatever the action of the
\* decision, and appends exactly one decision record to the sink.
C18_DecisionEventEveryTick ==
    TickDone =>
        /\ "DECISION" \in EventTypes
        /\ Len(db.bot_decisions) = Len(db.market_snapshots)

\* the order of the latest tick changed the wallet
OrderExecuted == TickDone /\ wallet # pre

\* C19: the decision record reports the true outcome of the order:
\* insufficient_funds exactly when the buy was rejected for lack of cash,
\* no_position exactly when the sell found no open position, success with
\* was_executed = 1 exactly when the order changed the wallet, and a HOLD
\* keeps was_executed = 0 and no execution_result.
C19_DecisionRecordTrueOutcome ==
    TickDone =>
        /\ LastDecision.execution_result = "insufficient_funds"
             <=> /\ LastDecision.action = "BUY"
                 /\ RGt(STAKE, pre.cash_balance)
        /\ LastDecision.execution_result = "no_position"
             <=> /\ LastDecision.action = "SELL"
                 /\ LastDecision.market_id \notin DOMAIN pre.positions
        /\ (/\ LastDecision.execution_result = "success"
            /\ LastDecision.was_executed = 1)
             <=> OrderExecuted
        /\ LastDecision.action = "HOLD"
             => /\ LastDecision.was_executed = 0
                /\ LastDecision.execution_result = "None"

\* C20: a tick returns a TRADE_EXECUTED and an ACTIVITY_LOG event exactly
\* when its order was executed against the wallet, and the sink holds one
\* trade per executed order: a HOLD, a rejected buy or a sell without
\* position gives neither event and no trade.
C20_TradeEventsIffExecuted ==
    TickDone =>
        /\ "TRADE_EXECUTED" \in EventTypes <=> OrderExecuted
        /\ "ACTIVITY_LOG" \in EventTypes <=> OrderExecuted
        /\ Len(db.trades) = Len(transaction_history)
        /\ Len(db.activity_logs) = Len(transaction_history)

\* the wallet and the prices before the first request
ServiceStart ==
    [cash_balance |-> initial_balance, positions |-> <<>>,
     markets |-> [m \in DOMAIN MARKETS_DB |-> MARKETS_DB[m].price]]

\* the wallet and the prices after a tick that runs alone from the state s
\* with the market, change and decision of the request of thread t
AfterTickAlone(s, t) ==
    LET target == threads[t].target
        decision == threads[t].decision
        price == clamp_price(RAdd(s.markets[target], threads[t].change))
        moved == [s EXCEPT !.markets[target] = price]
    IN  IF decision.action = "BUY"
             /\ ~insufficient_funds(STAKE, s.cash_balance)
        THEN LET pos == IF target \in DOMAIN s.positions
                        THEN s.positions[target]
                        ELSE new_position(target,
                                          MARKETS_DB[target].question,
                                          decision.side)
             IN  [moved EXCEPT
                    !.cash_balance = RSub(s.cash_balance, STAKE),
                    !.positions =
                        [m \in DOMAIN s.positions \cup {target} |->
                           IF m = target
                           THEN merge_position(pos, price, STAKE)
                           ELSE s.positions[m]]]
        ELSE IF decision.action = "SELL" /\ target \in DOMAIN s.positions
        THEN [moved EXCEPT
                !.cash_balance =
                    RAdd(s.cash_balance,
                         RMul(s.positions[target].shares, price)),
                !.positions =
                    [m \in DOMAIN s.positions \ {target} |->
                       s.positions[m]]]
        ELSE moved

\* both tick requests have been answered
TicksDone == \A t \in TickThreads : threads[t].pc = "done"

\* C16: two tick requests handled concurrently leave the wallet as running
\* the two ticks one after the other in some order would: their mutations
\* of the wallet and of the prices do not interleave and no update of the
\* cash is lost.
C16_TicksSerialized ==
    TicksDone =>
        \E t \in TickThreads, u \in TickThreads :
            /\ t # u
            /\ LET s == AfterTickAlone(AfterTickAlone(ServiceStart, t), u)
               IN  /\ cash_balance = s.cash_balance
                   /\ positions = s.positions

\* the answer to a stats request has been computed
StatsDone(t) == threads[t].pc = "done"

\* C17: a stats request handled while a tick runs sees the wallet as it was
\* before the order of the tick or as it is after it: its answer is the
\* answer for one of the states the wallet has been in, never one made of
\* the cash of one state and the positions of another.
C17_NoPartialTickObserved ==
    \A t \in StatsThreads :
        StatsDone(t) =>
            \E w \in wallet_states :
                threads[t].result
                    = stats_of(w.cash_balance, w.cash_balance, w.positions,
                               w.positions, threads[t].prices)

\* the positions in the list of the latest tick of the events of a type
EventsOfType(type) == {i \in 1..Len(events) : events[i].type = type}

\* C21: every tick reaches valuation whatever the outcome of its order: it
\* returns exactly one PORTFOLIO_UPDATE event and persists one portfolio
\* snapshot, also when the buy was rejected or the sell found no position.
C21_ValuationEveryTick ==
    TickDone =>
        /\ Cardinality(EventsOfType("PORTFOLIO_UPDATE")) = 1
        /\ Len(db.portfolio_snapshots) = Len(db.bot_decisions)
        /\ \A i \in EventsOfType("PORTFOLIO_UPDATE") :
              events[i].payload
                  = db.portfolio_snapshots[Len(db.portfolio_snapshots)]

\* the latest tick sold without position after a tick whose buy was
\* rejected, and both were valued
C21_Witness ==
    /\ TickDone
    /\ LastDecision.execution_result = "no_position"
    /\ LastDecision.market_id \notin DOMAIN pre.positions
    /\ \E i \in 1..Len(db.bot_decisions) :
          db.bot_decisions[i].execution_result = "insufficient_funds"
    /\ EventsOfType("PORTFOLIO_UPDATE") # {}

\* the response of the latest tick
LastResponse == responses[Len(responses)]

\* C22: every tick returns a response to its caller: a failure inside the
\* tick, of a persistence write or of the strategy, is never propagated to
\* the caller as an exception.
C22_TickAlwaysReturns ==
    \A i \in 1..Len(responses) : responses[i] = "returned"

\* C23: when the strategy's decide fails, the tick aborts with the wallet
\* untouched: cash, positions and transaction log are as before the tick.
C23_StrategyFailureLeavesWallet ==
    (responses # <<>> /\ LastResponse = "decide") =>
        /\ wallet = pre
        /\ call.op = "aborted"

\* the strategy fails in a tick that follows a tick which opened a position
C23_Witness ==
    /\ Len(responses) = 2
    /\ LastResponse = "decide"
    /\ positions # <<>>
    /\ db.trades # <<>>

C25_StrategyPure ==
    [][strategy' # strategy =>
          /\ cash_balance' = cash_balance
          /\ positions' = positions
          /\ transaction_history' = transaction_history
          /\ markets' = markets]_vars

\* a strategy has been called while the wallet holds a position and a
\* price has moved
C25_Witness ==
    /\ strategy.op # "none"
    /\ positions # <<>>
    /\ \E m \in DOMAIN markets : markets[m] # MARKETS_DB[m].price

\* C26: every Decision a strategy returns has its action in BUY, SELL, HOLD
\* and its confidence in 0..100, for every draw and every category,
\* a preferred category included.
C26_DecisionInRange ==
    strategy.op # "none" =>
        /\ strategy.decision.action \in {"BUY", "SELL", "HOLD"}
        /\ strategy.decision.confidence \in 0..100

\* the score analyze_market compared with its thresholds at its last call
LastScore ==
    IF strategy.category \in strategy.preferred_categories
    THEN RAdd(strategy.draw, <<3, 20>>)
    ELSE strategy.draw

\* 0.8 - riskTolerance x 0.2 at the last call
LastBuyThreshold ==
    RSub(<<4, 5>>, RMul(strategy.risk_tolerance, <<1, 5>>))

\* C27: analyze_market returns BUY when the score (draw plus the bonus of
\* a preferred category) is above 0.8 - riskTolerance x 0.2, SELL when it
\* is not BUY and the score is below 0.3, and HOLD in every other case.
C27_Thresholds ==
    strategy.op = "analyze_market" =>
        strategy.decision.action =
            IF RGt(LastScore, LastBuyThreshold) THEN "BUY"
            ELSE IF RLt(LastScore, <<3, 10>>) THEN "SELL"
            ELSE "HOLD"

\* a score exactly at the buy threshold was held
C27_Witness ==
    /\ strategy.op = "analyze_market"
    /\ strategy.decision.action = "HOLD"
    /\ LastScore = LastBuyThreshold

\* the characters of the decimal digits
DigitChars == {"0", "1", "2", "3", "4", "5", "6", "7", "8", "9"}

\* a text of the form YYYY-MM-DDTHH:MM:SS.mmmZ
IsMillisecondUtc(text) ==
    /\ Len(text) = 24
    /\ \A i \in {1, 2, 3, 4, 6, 7, 9, 10, 12, 13, 15, 16, 18, 19,
                 21, 22, 23} : text[i] \in DigitChars
    /\ text[5] = "-" /\ text[8] = "-" /\ text[11] = "T"
    /\ text[14] = ":" /\ text[17] = ":" /\ text[20] = "."
    /\ text[24] = "Z"

\* C28: every timestamp emitted has the form of UTC ISO-8601 with exactly
\* three digits of fractional seconds followed by Z, at every instant, an
\* instant whose sub-second part is zero included.
C28_TimestampFormat ==
    \A i \in 1..Len(timestamps) : IsMillisecondUtc(timestamps[i])

\* the types of the events of the latest tick, in their order
EventTypeSeq == [i \in 1..Len(events) |-> events[i].type]

\* C29: the events of a tick come in a fixed order: one MARKET_UPDATE,
\* then TRADE_EXECUTED followed by ACTIVITY_LOG (only for an executed
\* order), then one PORTFOLIO_UPDATE, then BOT_STATUS; the order is applied
\* to the wallet at the price after the market step and the valuation
\* reads the wallet after the order.
C29_EventOrder ==
    TickDone =>
        /\ EventTypeSeq \in
             {<<"MARKET_UPDATE", "PORTFOLIO_UPDATE", "BOT_STATUS">>,
              <<"MARKET_UPDATE", "TRADE_EXECUTED", "ACTIVITY_LOG",
                "PORTFOLIO_UPDATE", "BOT_STATUS">>}
        /\ "TRADE_EXECUTED" \in EventTypes => OrderExecuted
        /\ events[1].payload.id = call.market_id
        /\ events[1].payload.currentPrice
             = Round(markets[call.market_id], 4)
        /\ call.op \in {"buy", "sell"}
             => call.price = markets[call.market_id]
        /\ events[Len(events) - 1].payload.cashBalance
             = Round(cash_balance, 2)

\* the latest tick moved a price away from its initial value, executed
\* an order and returned the five events
C29_Witness ==
    /\ TickDone
    /\ Len(events) = 5
    /\ OrderExecuted
    /\ markets[call.market_id] # MARKETS_DB[call.market_id].price
    /\ cash_balance # pre.cash_balance

\* the payloads of the PORTFOLIO_UPDATE and BOT_STATUS events returned to
\* the tick request of thread t
PortfolioUpdateOf(t) ==
    threads[t].result[Len(threads[t].result) - 1].payload

BotStatusOf(t) == threads[t].result[Len(threads[t].result)].payload

\* C30: the PORTFOLIO_UPDATE and BOT_STATUS events of a tick describe the
\* wallet after the order of that tick: cashBalance is the cash after the
\* order, rounded; investedValue is computed with the prices after the
\* market step of that tick; activePositions is the number of positions
\* open after the order.
C30_EventsDescribeWalletAfterOrder ==
    \A t \in TickThreads :
        threads[t].pc = "done" =>
            /\ PortfolioUpdateOf(t).cashBalance
                 = Round(threads[t].cash_balance, 2)
            /\ PortfolioUpdateOf(t).investedValue
                 = Round(invested_value(threads[t].positions,
                                        threads[t].prices,
                                        DOMAIN threads[t].positions), 2)
            /\ BotStatusOf(t).activePositions
                 = Cardinality(DOMAIN threads[t].positions)

\* C31: a tick whose decision is HOLD leaves the cash, the positions and
\* the transaction log unchanged; every tick appends at most one
\* transaction; a successful BUY debits exactly the stake of 50.
C31_AtMostOneOrderPerTick ==
    TickDone =>
        /\ LastDecision.action = "HOLD" => wallet = pre
        /\ Len(transaction_history) - Len(pre.transaction_history)
             \in {0, 1}
        /\ IsPrefix(pre.transaction_history, transaction_history)
        /\ (LastDecision.action = "BUY" /\ wallet # pre)
             => /\ cash_balance = RSub(pre.cash_balance, <<50, 1>>)
                /\ LastTx.action = "BUY"
                /\ RMul(LastTx.quantity, LastTx.price) = <<50, 1>>

\* a HOLD tick has followed a tick whose BUY was executed, so that the
\* wallet the HOLD leaves alone holds a position and a transaction
C31_Witness ==
    /\ TickDone
    /\ LastDecision.action = "HOLD"
    /\ positions # <<>>
    /\ transaction_history # <<>>
    /\ \E i \in 1..Len(db.bot_decisions) :
          /\ db.bot_decisions[i].action = "BUY"
          /\ db.bot_decisions[i].was_executed = 1

\* the markets whose price differs between the two states of a step
Moved == {m \in DOMAIN markets : markets'[m] # markets[m]}

\* the step is a tick: it returns its events to one more caller
TickStep == Len(responses') = Len(responses) + 1

\* the price of the market m moves by at most 0.02 in the step
SmallMove(m) ==
    /\ RLe(RSub(markets'[m], markets[m]), <<1, 50>>)
    /\ RLe(RSub(markets[m], markets'[m]), <<1, 50>>)

LastPersisted == db.portfolio_snapshots[Len(db.portfolio_snapshots)]

\* C33: at startup the wallet is rebuilt from the sink: with a snapshot
\* persisted, the cash is the cashBalance of the latest snapshot and the
\* initial balance the configured one, with no position and an empty
\* log; with none, cash = initial balance = the configured balance.
C33_StartupFromLatestSnapshot ==
    call.op = "startup" =>
        /\ positions = <<>>
        /\ transaction_history = <<>>
        /\ initial_balance \in TickStartingBalances
        /\ cash_balance =
             IF db.portfolio_snapshots # <<>>
             THEN LastPersisted.cashBalance
             ELSE initial_balance

\* the ticks that moved the price of the market m
MovesOf(m) ==
    {i \in 1..Len(db.market_snapshots) :
        db.market_snapshots[i].market_id = m}

\* the price the market m had when the service was shut down: the one
\* written by the latest tick that moved it
PriceAtShutdown(m) ==
    IF MovesOf(m) = {} THEN MARKETS_DB[m].price
    ELSE db.market_snapshots[
             CHOOSE i \in MovesOf(m) : \A j \in MovesOf(m) : j <= i].price

\* C34: a restart preserves the value of the portfolio: with the prices
\* unchanged, the first snapshot taken after the restart reports the
\* totalValue and the totalPnL of the last snapshot persisted before it,
\* also when positions were open at shutdown.
C34_RestartPreservesValue ==
    (/\ call.op = "startup"
     /\ db.portfolio_snapshots # <<>>
     /\ \A m \in DOMAIN markets : PriceAtShutdown(m) = markets[m])
        => /\ snapshot_of(markets, clock).totalValue
                = LastPersisted.totalValue
           /\ snapshot_of(markets, clock).totalPnL
                = LastPersisted.totalPnL

\* the persisted decisions that were executed
ExecutedDecisions ==
    {i \in 1..Len(db.bot_decisions) : db.bot_decisions[i].was_executed = 1}

\* C35: from a fresh wallet and an empty sink, after any number of ticks
\* the number of persisted trades, reported as totalTrades, is the number
\* of transactions in the log of the wallet, and every persisted decision
\* with was_executed = 1 has exactly one persisted trade.
C35_TradesMatchTransactions ==
    TickDone =>
        /\ Len(db.trades) = Len(transaction_history)
        /\ events[Len(events)].payload.totalTrades
             = Len(transaction_history)
        /\ Cardinality(ExecutedDecisions) = Len(db.trades)

\* the cash moved by the order of the latest tick
CashMoved ==
    IF RLt(cash_balance, pre.cash_balance)
    THEN RSub(pre.cash_balance, cash_balance)
    ELSE RSub(cash_balance, pre.cash_balance)

\* C36: every TRADE_EXECUTED event and persisted trade agrees with the
\* transaction the wallet logged in the same tick: same action, a
\* quantity equal to the shares bought or sold (rounded), a totalCost
\* equal to the cash debited by the buy or credited by the sell, for SELL
\* trades as for BUY trades.
C36_TradeAgreesWithTransaction ==
    (TickDone /\ "TRADE_EXECUTED" \in EventTypes) =>
        LET trade == db.trades[Len(db.trades)]
            event == events[2].payload
        IN  /\ trade.action = LastTx.action
            /\ trade.quantity = Round(LastTx.quantity, 2)
            /\ trade.total_cost = Round(CashMoved, 2)
            /\ event.action = LastTx.action
            /\ event.quantity = Round(LastTx.quantity, 2)
            /\ event.totalCost = Round(CashMoved, 2)

\* the markets with a position before and after the latest call
KeptPositions == DOMAIN positions \cap DOMAIN pre.positions

\* C37: a partial sell changes neither the avgEntryPrice nor the side of
\* the position it reduces: avgEntryPrice changes only on a buy, and the
\* side of a position is the side of the buy that opened it until the
\* position is closed.
C37_SellKeepsAverageAndSide ==
    /\ \A m \in KeptPositions :
          /\ positions[m].side = pre.positions[m].side
          /\ positions[m].avgEntryPrice # pre.positions[m].avgEntryPrice
               => /\ call.op = "buy"
                  /\ call.market_id = m
                  /\ ret.success
    /\ \A m \in DOMAIN positions \ DOMAIN pre.positions :
          /\ call.op = "buy"
          /\ call.market_id = m
          /\ positions[m].side = call.side

\* the latest call sold a part of a position at a price that is not its
\* average entry price
C37_Witness ==
    /\ call.op = "sell"
    /\ call.market_id \in KeptPositions
    /\ RLt(positions[call.market_id].shares,
           pre.positions[call.market_id].shares)
    /\ call.price # positions[call.market_id].avgEntryPrice

\* C38: in every reachable state of the wallet every position of the
\* map holds at least 0.001 shares and has avgEntryPrice > 0: no
\* operation, buy included, leaves a dust or empty position in the map.
C38_NoDustPosition ==
    \A m \in DOMAIN positions :
        /\ RLe(<<1, 1000>>, positions[m].shares)
        /\ RGt(positions[m].avgEntryPrice, Zero)

\* C39: with BotBrain as the strategy and the stake of 50, no tick
\* executes a SELL: the cash never increases from one tick to the next,
\* no position is closed, and once the cash is below 50 every BUY
\* decision is recorded as insufficient_funds and the wallet stays as it
\* is.
C39_BrainNeverSells ==
    TickDone =>
        /\ LastDecision.action \in {"HOLD", "BUY"}
        /\ \A i \in 1..Len(transaction_history) :
              transaction_history[i].action = "BUY"
        /\ RLe(cash_balance, pre.cash_balance)
        /\ DOMAIN pre.positions \subseteq DOMAIN positions
        /\ RLt(pre.cash_balance, <<50, 1>>)
             => /\ wallet = pre
                /\ LastDecision.action = "BUY"
                     => /\ LastDecision.execution_result
                             = "insufficient_funds"
                        /\ LastDecision.was_executed = 0

\* a BUY decision was rejected with a cash below 50 left by an earlier
\* BUY, whose position is still open
C39_Witness ==
    /\ TickDone
    /\ RLt(pre.cash_balance, <<50, 1>>)
    /\ LastDecision.action = "BUY"
    /\ LastDecision.execution_result = "insufficient_funds"
    /\ positions # <<>>
    /\ Len(db.bot_decisions) >= 3

====
